---- MODULE Spec2Model ----
(***************************************************************************)
(* qb-tracker-sentinel: per-tracker seeding limits for qBittorrent.        *)
(* A model of src/sentinel.py: configuration loading, the run loop, one    *)
(* polling cycle, tag filtering, rule evaluation with idle tracking, and   *)
(* the dispatch of pause/delete commands.                                  *)
(*                                                                         *)
(* Conventions: a Python str that the code takes apart (t.tags, a tag) is  *)
(* a sequence of one-character strings; a dict is a function whose DOMAIN  *)
(* is its key set; None is the value None; time.time() is an integer       *)
(* number of seconds.                                                      *)
(***************************************************************************)
EXTENDS Integers, Sequences, FiniteSets, TLC

VARIABLES
    raw,        \* the parsed YAML document handed to Config.from_dict
    args,       \* the command line: [once, dry_run]
    cfg,        \* the Config built by from_dict (NoCfg before / on failure)
    once,       \* Sentinel.once
    dry_run,    \* Sentinel.dry_run
    state,      \* Sentinel.state: hash -> [uploaded, last_up]
    pc,         \* position of the process
    torrents,   \* torrents of the current cycle's list not yet iterated
    now,        \* the value of `now` of the current cycle
    clock,      \* the wall clock (time.time())
    cycles,     \* number of cycles started so far
    calls,      \* external API calls made during the current cycle, in order
    log,        \* log records emitted during the current cycle, in order
    last,       \* what the most recent loop iteration saw and decided
    exc,        \* the exception that ended the run loop, if any
    obs         \* per hash: the observations the idle tracker has been shown
                \* (prev: the bytes of the latest one, rise: the time of the
                \* latest one with more bytes than the one before it, max: the
                \* most bytes of any, seen and cycle: when the latest one was)

vars == <<raw, args, cfg, once, dry_run, state, pc, torrents, now, clock,
          cycles, calls, log, last, exc, obs>>

----------------------------------------------------------------------------
(* Bounds of the model *)

\* cycles a behaviour may start (run loop, rules and tag filter)
MaxCycles == 2
\* cycles a behaviour may start when idle tracking is followed over time
MaxIdleCycles == 4
\* the largest number of uploaded bytes a torrent reports
MaxUploaded == 1
\* the longest t.tags string of the tag filter's inputs
MaxTagsLen == 4

----------------------------------------------------------------------------
(* Python values *)

None == "<None>"

Range(s) == {s[i] : i \in 1..Len(s)}

\* {**a, **b}: the keys of both, b's value where both have the key
DictMerge(a, b) == [k \in (DOMAIN a) \cup (DOMAIN b) |-> IF k \in DOMAIN b THEN b[k] ELSE a[k]]

\* d.get(k, dflt)
DictGet(d, k, dflt) == IF k \in DOMAIN d THEN d[k] ELSE dflt

EmptyDict == [k \in {} |-> None]

\* str.split(","): the pieces between the commas, empty pieces included
RECURSIVE Split(_)
Split(s) ==
    IF s = <<>> THEN << <<>> >>
    ELSE LET rest == Split(Tail(s))
         IN  IF Head(s) = ","
             THEN << <<>> >> \o rest
             ELSE << <<Head(s)>> \o Head(rest) >> \o Tail(rest)

RECURSIVE LStrip(_)
LStrip(s) == IF s # <<>> /\ Head(s) = " " THEN LStrip(Tail(s)) ELSE s

RECURSIVE RStrip(_)
RStrip(s) == IF s # <<>> /\ s[Len(s)] = " " THEN RStrip(SubSeq(s, 1, Len(s) - 1)) ELSE s

\* str.strip()
Strip(s) == RStrip(LStrip(s))

\* str.lower() and str.upper() on the action strings of the model
Lower(a) ==
    CASE a = "Pause" -> "pause"
      [] a = "PAUSE" -> "pause"
      [] a = "REMOVE" -> "remove"
      [] a = "REMOVE_DATA" -> "remove_data"
      [] a = "DELETE" -> "delete"
      [] OTHER -> a

Upper(a) ==
    CASE a = "pause" -> "PAUSE"
      [] a = "Pause" -> "PAUSE"
      [] a = "remove" -> "REMOVE"
      [] a = "remove_data" -> "REMOVE_DATA"
      [] a = "delete" -> "DELETE"
      [] OTHER -> a

----------------------------------------------------------------------------
(* Policy and Config (dataclasses) *)

PolicyFields == {"ratio", "seeding_minutes", "idle_minutes", "action", "include_tags", "exclude_tags"}

\* the fields of Policy that have no default value
RequiredFields == {"ratio", "seeding_minutes", "idle_minutes"}

\* Policy(**d) raises TypeError for an unexpected keyword or a missing required one
PolicyRaises(d) == ~((DOMAIN d) \subseteq PolicyFields) \/ ~(RequiredFields \subseteq (DOMAIN d))

\* Policy(**d): the fields as given, the defaults of the dataclass for the rest
Policy(d) ==
    [ratio           |-> d["ratio"],
     seeding_minutes |-> d["seeding_minutes"],
     idle_minutes    |-> d["idle_minutes"],
     action          |-> DictGet(d, "action", "pause"),
     include_tags    |-> DictGet(d, "include_tags", {}),
     exclude_tags    |-> DictGet(d, "exclude_tags", {})]

NoCfg == [ok |-> FALSE]

\* Config.from_dict raises when one of its Policy(**...) calls raises
FromDictRaises(data) ==
    LET policy   == DictGet(data, "policy", EmptyDict)
        default  == DictGet(policy, "default", EmptyDict)
        trackers == DictGet(policy, "trackers", EmptyDict)
    IN  \/ PolicyRaises(default)
        \/ \E host \in DOMAIN trackers : PolicyRaises(DictMerge(default, trackers[host]))

\* Config.from_dict
FromDict(data) ==
    LET policy   == DictGet(data, "policy", EmptyDict)
        default  == DictGet(policy, "default", EmptyDict)
        trackers == DictGet(policy, "trackers", EmptyDict)
        runtime  == DictGet(data, "runtime", EmptyDict)
    IN  [ok               |-> TRUE,
         default_policy   |-> Policy(default),
         tracker_policies |-> [host \in DOMAIN trackers |-> Policy(DictMerge(default, trackers[host]))],
         interval_seconds |-> DictGet(runtime, "interval_seconds", 60),
         dry_run          |-> DictGet(runtime, "dry_run", TRUE)]

----------------------------------------------------------------------------
(* Helpers of the cycle *)

\* urlparse(url).hostname for the tracker URLs of the model; qBittorrent lists
\* the pseudo trackers "** [DHT] **" etc., which have no hostname
UrlHostname(url) ==
    CASE url = "http://a.org/announce" -> "a.org"
      [] url = "udp://b.org:6969" -> "b.org"
      [] OTHER -> None

\* normalize_tracker; tr.get("url") that is None or "" is the url ""
normalize_tracker(url) == IF url = "" THEN None ELSE UrlHostname(url)

\* TagSet without the strip() of each tag
TagSet_NoStrip(torrent_tags) ==
    {torrent_tags[i] : i \in {j \in 1..Len(torrent_tags) : torrent_tags[j] # <<>>}}

\* the set built on the first line of match_tags
TagSet(torrent_tags) ==
    {Strip(torrent_tags[i]) : i \in {j \in 1..Len(torrent_tags) : torrent_tags[j] # <<>>}}

match_tags(torrent_tags, policy) ==
    LET tags == TagSet(torrent_tags)
    IN  IF policy.include_tags # {} /\ tags \cap policy.include_tags = {}
        THEN FALSE
        ELSE IF policy.exclude_tags # {} /\ tags \cap policy.exclude_tags # {}
             THEN FALSE
             ELSE TRUE

\* qbittorrentapi's exception classes: isinstance(raised, cls)
IsInstance(kind, cls) ==
    \/ kind = cls
    \/ cls = "APIError"
    \/ cls = "APIConnectionError" /\ kind \in {"LoginFailed", "HTTPError"}

\* the first tracker whose url has a hostname
RECURSIVE FirstHost(_)
FirstHost(urls) ==
    IF urls = <<>> THEN None
    ELSE IF normalize_tracker(Head(urls)) # None THEN normalize_tracker(Head(urls))
         ELSE FirstHost(Tail(urls))

\* get_tracker_host that looks at the first tracker only
get_tracker_host_HeadOnly(trk) ==
    IF trk.raised # "none" \/ trk.urls = <<>>
    THEN None
    ELSE normalize_tracker(Head(trk.urls))

\* get_tracker_host, given what client.torrents_trackers did: trk.raised is
\* the exception it raised ("none": it returned trk.urls)
get_tracker_host(trk) ==
    IF trk.raised # "none" /\ IsInstance(trk.raised, "APIError")
    THEN None
    ELSE FirstHost(trk.urls)

\* self.cfg.tracker_policies.get(tracker_host, self.cfg.default_policy)
PolicyFor(c, tracker_host) == DictGet(c.tracker_policies, tracker_host, c.default_policy)

----------------------------------------------------------------------------
(* Rule evaluation and idle tracking (the body of the loop of _cycle) *)

\* RatioFires without the truthiness test of the threshold
RatioFires_NoGuard(policy, t) == t.ratio >= policy.ratio

\* the first rule: policy.ratio and t.ratio >= policy.ratio
RatioFires(policy, t) == policy.ratio # 0 /\ t.ratio >= policy.ratio

\* the second rule: policy.seeding_minutes and t.seeding_time // 60 >= policy.seeding_minutes
SeedingFires(policy, t) ==
    policy.seeding_minutes # 0 /\ (t.seeding_time \div 60) >= policy.seeding_minutes

\* self.state.setdefault(t.hash, {"uploaded": t.uploaded, "last_up": now})
SetDefault(s, t, time) ==
    IF t.hash \in DOMAIN s THEN s[t.hash] ELSE [uploaded |-> t.uploaded, last_up |-> time]

\* the if branch: the torrent uploaded more than the stored amount
Progress(t, st) == t.uploaded > st.uploaded

\* IdleFires without the test of the upload speed
IdleFires_IgnoreSpeed(policy, t, st, time) ==
    /\ ~Progress(t, st)
    /\ policy.idle_minutes # 0
    /\ (time - st.last_up) >= 60 * policy.idle_minutes

\* the elif branch; (now - last_up) / 60 >= m is (now - last_up) >= 60 * m
IdleFires(policy, t, st, time) ==
    /\ ~Progress(t, st)
    /\ policy.idle_minutes # 0
    /\ t.upspeed = 0
    /\ (time - st.last_up) >= 60 * policy.idle_minutes

\* Reasons with the idle check appended ahead of the two stateless rules
Reasons_IdleFirst(policy, t, st, time) ==
    (IF IdleFires(policy, t, st, time) THEN <<"idle">> ELSE <<>>)
    \o (IF RatioFires(policy, t) THEN <<"ratio">> ELSE <<>>)
    \o (IF SeedingFires(policy, t) THEN <<"seeding_time">> ELSE <<>>)

\* the list `reasons` at the end of the iteration
Reasons(policy, t, st, time) ==
    (IF RatioFires(policy, t) THEN <<"ratio">> ELSE <<>>)
    \o (IF SeedingFires(policy, t) THEN <<"seeding_time">> ELSE <<>>)
    \o (IF IdleFires(policy, t, st, time) THEN <<"idle">> ELSE <<>>)

\* StateAfter that stores whatever the torrent reports, also fewer bytes
StateAfter_Overwrite(s, t, time) ==
    LET st == SetDefault(s, t, time)
        new == IF t.uploaded # st.uploaded THEN [uploaded |-> t.uploaded, last_up |-> time] ELSE st
    IN  [h \in (DOMAIN s) \cup {t.hash} |-> IF h = t.hash THEN new ELSE s[h]]

\* self.state after the iteration
StateAfter(s, t, time) ==
    LET st == SetDefault(s, t, time)
        new == IF Progress(t, st) THEN [uploaded |-> t.uploaded, last_up |-> time] ELSE st
    IN  [h \in (DOMAIN s) \cup {t.hash} |-> IF h = t.hash THEN new ELSE s[h]]

\* StateAfterIteration with the idle state updated ahead of the tag filter
StateAfterIteration_BeforeFilter(s, t, time, admitted) == StateAfter(s, t, time)

\* self.state after an iteration: untouched when match_tags was false
\* (continue), else after setdefault and the progress update
StateAfterIteration(s, t, time, admitted) ==
    IF admitted THEN StateAfter(s, t, time) ELSE s

\* the command _apply_action sends for an action string (already lowered)
Command(action, hash) ==
    CASE action = "pause" -> <<[op |-> "torrents_pause", hash |-> hash, delete_files |-> FALSE]>>
      [] action = "remove" -> <<[op |-> "torrents_delete", hash |-> hash, delete_files |-> FALSE]>>
      [] action = "remove_data" -> <<[op |-> "torrents_delete", hash |-> hash, delete_files |-> TRUE]>>
      [] OTHER -> <<>>

\* _apply_action: the calls it makes, the records it logs and the exception
\* it lets escape, when the command it sends ends as `outcome`
\* ("ok" or the exception raised)
ApplyAction(dry, t, tracker_host, action0, reasons, outcome) ==
    LET action == Lower(action0)
        msg == [action  |-> Upper(action),
                hash    |-> t.hash,
                host    |-> IF tracker_host = None THEN "-" ELSE tracker_host,
                reasons |-> reasons]
        cmd == Command(action, t.hash)
    IN  IF dry
        THEN [calls |-> <<>>, log |-> <<[level |-> "INFO", dry |-> TRUE, msg |-> msg]>>, raised |-> "none"]
        ELSE IF cmd # <<>> /\ outcome # "ok"
             THEN [calls |-> cmd, log |-> <<>>, raised |-> outcome]
             ELSE [calls |-> cmd, log |-> <<[level |-> "INFO", dry |-> FALSE, msg |-> msg]>>, raised |-> "none"]

\* RunAfterRaise with a connection error swallowed and the loop retried
RunAfterRaise_Retry(kind) ==
    IF kind = "LoginFailed" THEN "returned"
    ELSE IF IsInstance(kind, "APIConnectionError") THEN "fetch"
    ELSE "crashed"

\* the except clauses of run: where the process is after _cycle raised
RunAfterRaise(kind) ==
    IF IsInstance(kind, "LoginFailed") \/ IsInstance(kind, "APIConnectionError")
    THEN "returned"
    ELSE "crashed"

\* the record run logs for an exception it catches
ErrorLog(kind) ==
    IF RunAfterRaise(kind) = "returned"
    THEN <<[level |-> "ERROR", dry |-> FALSE, msg |-> kind]>>
    ELSE <<>>

----------------------------------------------------------------------------
(* Inputs of the model: what the operator and the torrent client supply *)

\* the lists of hashes client.torrents_info(filter="seeding") may return:
\* no torrent, either of two torrents, or both
TorrentLists == {<<>>, <<"h1">>, <<"h2">>, <<"h1", "h2">>}

\* how a call of the client API may end: "ok" or the exception it raises
CallOutcomes == {"ok", "LoginFailed", "APIConnectionError", "HTTPError", "APIError"}

\* what client.torrents_trackers may do
TrackerOutcomes ==
    [raised : {"none"},
     urls : {<<>>, <<"** [DHT] **", "http://a.org/announce">>, <<"udp://b.org:6969", "http://a.org/announce">>}]
    \cup [raised : {"APIConnectionError"}, urls : {<<>>}]

\* a policy section of the YAML document
PolicyDict(r, s, i, a, incl, excl) ==
    ("ratio" :> r) @@ ("seeding_minutes" :> s) @@ ("idle_minutes" :> i) @@ ("action" :> a)
    @@ ("include_tags" :> incl) @@ ("exclude_tags" :> excl)

\* the YAML document
RawConfig(default, trackers, runtime) ==
    ("policy" :> (("default" :> default) @@ ("trackers" :> trackers))) @@ ("runtime" :> runtime)

\* the tags "t" and "x"
TagT == <<"t">>
TagX == <<"x">>

\* Run loop and dispatch: every action string, dry-run from the file and
\* from the command line, a tracker with its own policy; the torrents differ
\* in tags ("", "t", "t, x"), ratio and tracker list
RawConfigs ==
    {RawConfig(PolicyDict(2, 0, 1, a, {}, {TagX}),
               ("a.org" :> (("action" :> "remove_data") @@ ("include_tags" :> {TagT}))),
               rt) :
        a \in {"pause", "remove", "remove_data", "Pause", "delete"},
        rt \in {EmptyDict, ("dry_run" :> FALSE)}}

Metrics ==
    [tags : {<<>>, <<"t">>, <<"t", ",", " ", "x">>}, ratio : {1, 2}, seeding_time : {0},
     uploaded : {0}, upspeed : {0}]

CommandLines == [once : BOOLEAN, dry_run : BOOLEAN]

----------------------------------------------------------------------------
(* The process *)

NoEval == [valid |-> FALSE]

NoExc == [kind |-> "none", op |-> "none"]

EmptyState == [h \in {} |-> [uploaded |-> 0, last_up |-> 0]]

EmptyObs == [h \in {} |-> [prev |-> 0, rise |-> -1, max |-> 0, seen |-> 0, cycle |-> 0]]

InitWith(configs, commandLines) ==
    /\ raw \in configs
    /\ args \in commandLines
    /\ cfg = NoCfg
    /\ once = FALSE
    /\ dry_run = TRUE
    /\ state = EmptyState
    /\ pc = "main"
    /\ torrents = <<>>
    /\ now = 0
    /\ clock = 0
    /\ cycles = 0
    /\ calls = <<>>
    /\ log = <<>>
    /\ last = NoEval
    /\ exc = NoExc
    /\ obs = EmptyObs

\* SentinelDryRun that ignores the --dry-run switch
SentinelDryRun_ConfigOnly(c, dry_run_override) == c.dry_run

\* Sentinel.__init__: self.dry_run
SentinelDryRun(c, dry_run_override) == dry_run_override \/ c.dry_run

\* main: load_config, then Sentinel(cfg, once, dry_run_override), then run()
Main ==
    /\ pc = "main"
    /\ IF FromDictRaises(raw)
       THEN /\ pc' = "exit"
            /\ exc' = [kind |-> "TypeError", op |-> "from_dict"]
            /\ UNCHANGED <<cfg, once, dry_run>>
       ELSE /\ cfg' = FromDict(raw)
            /\ once' = args.once
            /\ dry_run' = SentinelDryRun(cfg', args.dry_run)
            /\ pc' = "fetch"
            /\ exc' = exc
    /\ state' = EmptyState
    /\ UNCHANGED <<raw, args, torrents, now, clock, cycles, calls, log, last, obs>>

\* run calls _cycle, which fetches the seeding list and reads the time
Fetch(lists, maxCycles) ==
    /\ pc = "fetch"
    /\ cycles < maxCycles
    /\ cycles' = cycles + 1
    /\ calls' = <<[op |-> "torrents_info", hash |-> None, delete_files |-> FALSE]>>
    /\ last' = NoEval
    /\ \E outcome \in CallOutcomes :
          IF outcome = "ok"
          THEN /\ \E list \in lists : torrents' = list
               /\ now' = clock
               /\ pc' = "loop"
               /\ log' = <<>>
               /\ exc' = exc
          ELSE /\ pc' = RunAfterRaise(outcome)
               /\ exc' = [kind |-> outcome, op |-> "torrents_info"]
               /\ log' = ErrorLog(outcome)
               /\ UNCHANGED <<torrents, now>>
    /\ UNCHANGED <<raw, args, cfg, once, dry_run, state, clock, obs>>

\* the observations of a hash, after the idle tracker was shown t at `time`
\* in cycle number `cycle`
ObsAfter(o, t, time, cycle) ==
    LET known == t.hash \in DOMAIN o
        rise == IF known
                THEN (IF t.uploaded > o[t.hash].prev THEN time ELSE o[t.hash].rise)
                ELSE -1
        max == IF known /\ o[t.hash].max > t.uploaded THEN o[t.hash].max ELSE t.uploaded
    IN  [h \in (DOMAIN o) \cup {t.hash} |->
            IF h = t.hash
            THEN [prev |-> t.uploaded, rise |-> rise, max |-> max, seen |-> time, cycle |-> cycle]
            ELSE o[h]]

\* one iteration of the for loop of _cycle
CycleTorrent(metrics, trackerOutcomes) ==
    /\ pc = "loop"
    /\ torrents # <<>>
    /\ \E m \in metrics, trk \in trackerOutcomes, outcome \in CallOutcomes :
          LET t == [hash |-> Head(torrents)] @@ m
              tracker_host == get_tracker_host(trk)
              policy == PolicyFor(cfg, tracker_host)
              admitted == match_tags(IF t.tags # <<>> THEN Split(t.tags) ELSE <<>>, policy)
              st == SetDefault(state, t, now)
              reasons == Reasons(policy, t, st, now)
              act == ApplyAction(dry_run, t, tracker_host, policy.action, reasons, outcome)
              lookup == <<[op |-> "torrents_trackers", hash |-> t.hash, delete_files |-> FALSE]>>
              seen == [valid |-> TRUE, t |-> t, trk |-> trk, tracker_host |-> tracker_host,
                       policy |-> policy, admitted |-> admitted,
                       first |-> (t.hash \notin DOMAIN state)]
          IN  IF ~admitted
              THEN /\ outcome = "ok"
                   /\ torrents' = Tail(torrents)
                   /\ calls' = calls \o lookup
                   /\ last' = seen @@ [reasons |-> <<>>, raised |-> "none"]
                   /\ state' = StateAfterIteration(state, t, now, admitted)
                   /\ UNCHANGED <<obs, log, pc, exc>>
              ELSE /\ state' = StateAfterIteration(state, t, now, admitted)
                   /\ obs' = ObsAfter(obs, t, now, cycles)
                   /\ IF reasons = <<>>
                      THEN /\ outcome = "ok"
                           /\ torrents' = Tail(torrents)
                           /\ calls' = calls \o lookup
                           /\ last' = seen @@ [reasons |-> reasons, raised |-> "none"]
                           /\ UNCHANGED <<log, pc, exc>>
                      ELSE /\ (act.calls = <<>> => outcome = "ok")
                           /\ calls' = calls \o lookup \o act.calls
                           /\ last' = seen @@ [reasons |-> reasons, raised |-> act.raised]
                           /\ IF act.raised = "none"
                              THEN /\ torrents' = Tail(torrents)
                                   /\ log' = log \o act.log
                                   /\ UNCHANGED <<pc, exc>>
                              ELSE /\ torrents' = Tail(torrents)
                                   /\ pc' = RunAfterRaise(act.raised)
                                   /\ exc' = [kind |-> act.raised, op |-> act.calls[1].op]
                                   /\ log' = log \o ErrorLog(act.raised)
    /\ UNCHANGED <<raw, args, cfg, once, dry_run, now, clock, cycles>>

\* the for loop is over: run breaks in one-shot mode and sleeps otherwise
CycleEnd(delays) ==
    /\ pc = "loop"
    /\ torrents = <<>>
    /\ IF once
       THEN /\ pc' = "done"
            /\ clock' = clock
       ELSE /\ pc' = "fetch"
            /\ \E d \in delays : clock' = clock + cfg.interval_seconds + d
    /\ UNCHANGED <<raw, args, cfg, once, dry_run, state, torrents, now, cycles, calls, log, last, exc, obs>>

Init == InitWith(RawConfigs, CommandLines)

Next ==
    \/ Main
    \/ Fetch(TorrentLists, MaxCycles)
    \/ CycleTorrent(Metrics, TrackerOutcomes)
    \/ CycleEnd({0})

Spec == Init /\ [][Next]_vars

----------------------------------------------------------------------------
(* The rules: every combination of negative, zero and positive thresholds, *)
(* live mode, one torrent whose ratio, seeding time, uploaded bytes and    *)
(* upload speed vary, a cycle every 60 seconds                             *)

RuleConfigs ==
    {RawConfig(PolicyDict(r, s, i, "pause", {}, {}), EmptyDict, ("dry_run" :> FALSE)) :
        r \in {-1, 0, 2}, s \in {-1, 0, 1}, i \in {-1, 0, 1}}

RuleMetrics ==
    [tags : {<<>>}, ratio : {1, 2}, seeding_time : {59, 60},
     uploaded : 0..MaxUploaded, upspeed : {0, 1}]

NoTrackers == {[raised |-> "none", urls |-> <<>>]}

InitRules == InitWith(RuleConfigs, {[once |-> FALSE, dry_run |-> FALSE]})

NextRules ==
    \/ Main
    \/ Fetch({<<>>, <<"h1">>}, MaxCycles)
    \/ CycleTorrent(RuleMetrics, NoTrackers)
    \/ CycleEnd({0})

SpecRules == InitRules /\ [][NextRules]_vars

----------------------------------------------------------------------------
(* Idle tracking over time: an idle threshold of 1 or 2 minutes, a cycle   *)
(* every 30 or 60 seconds, one torrent that is at times missing from the   *)
(* list, at times rejected by the tag filter (tag "m"), and whose uploaded *)
(* bytes rise and drop                                                     *)

IdleConfigs ==
    {RawConfig(PolicyDict(0, 0, i, "pause", {TagT}, {}), EmptyDict, ("interval_seconds" :> 30)) :
        i \in {1, 2}}

IdleMetrics ==
    [tags : {<<"t">>, <<"m">>}, ratio : {1}, seeding_time : {0},
     uploaded : 0..MaxUploaded, upspeed : {0, 1}]

InitIdle == InitWith(IdleConfigs, {[once |-> FALSE, dry_run |-> FALSE]})

NextIdle ==
    \/ Main
    \/ Fetch({<<>>, <<"h1">>}, MaxIdleCycles)
    \/ CycleTorrent(IdleMetrics, NoTrackers)
    \/ CycleEnd({0, 30})

SpecIdle == InitIdle /\ [][NextIdle]_vars

----------------------------------------------------------------------------
(* The tag filter: every t.tags string of at most MaxTagsLen characters    *)
(* over "t", "x", "," and " ", every include and exclude list over the     *)
(* tags "t" and "x"                                                        *)

TagChars == {"t", "x", ",", " "}

Strings(n) == UNION {[1..k -> TagChars] : k \in 0..n}

TagConfigs ==
    {RawConfig(PolicyDict(2, 0, 0, "pause", incl, excl), EmptyDict, EmptyDict) :
        incl \in SUBSET {TagT, TagX}, excl \in SUBSET {TagT, TagX}}

TagMetrics ==
    [tags : Strings(MaxTagsLen), ratio : {2}, seeding_time : {0}, uploaded : {0}, upspeed : {0}]

InitTags == InitWith(TagConfigs, [once : BOOLEAN, dry_run : {FALSE}])

NextTags ==
    \/ Main
    \/ Fetch({<<"h1">>}, MaxCycles)
    \/ CycleTorrent(TagMetrics, NoTrackers)
    \/ CycleEnd({0})

SpecTags == InitTags /\ [][NextTags]_vars

----------------------------------------------------------------------------
(* Config loading: policy sections with keys left out or not known *)

\* a default policy section with the four scalar keys
FullPolicy ==
    ("ratio" :> 2) @@ ("seeding_minutes" :> 0) @@ ("idle_minutes" :> 1) @@ ("action" :> "remove")

\* FullPolicy with any of its keys left out, and FullPolicy with a key that
\* is not a field of Policy
PartialPolicies ==
    {[k \in keys |-> FullPolicy[k]] : keys \in SUBSET (DOMAIN FullPolicy)}
    \cup {FullPolicy @@ ("note" :> "x")}

\* documents with such a default section, without trackers or with a tracker
\* that overrides ratio only
PartialConfigs ==
    {RawConfig(default, trackers, EmptyDict) :
        default \in PartialPolicies,
        trackers \in {EmptyDict, ("a.org" :> ("ratio" :> 3))}}

InitConfig == InitWith(PartialConfigs, [once : BOOLEAN, dry_run : {TRUE}])

NextConfig ==
    \/ Main
    \/ Fetch({<<>>, <<"h1">>}, MaxCycles)
    \/ CycleTorrent(Metrics, TrackerOutcomes)
    \/ CycleEnd({0})

SpecConfig == InitConfig /\ [][NextConfig]_vars

----------------------------------------------------------------------------
(* Properties *)

\* the runtime section's dry_run flag as from_dict reads it
ConfigDryRun == DictGet(DictGet(raw, "runtime", EmptyDict), "dry_run", TRUE)

CommandOps == {"torrents_pause", "torrents_delete"}

ReadOps == {"torrents_info", "torrents_trackers"}

\* C1: when dry-run is in effect (the file's dry_run flag is true or
\* --dry-run is given), every external call of every cycle is the
\* seeding-list fetch or a tracker lookup; no pause or delete is ever sent.
C1_DryRunSendsNoCommand ==
    (ConfigDryRun \/ args.dry_run) => \A i \in 1..Len(calls) : calls[i].op \in ReadOps

\* a dry-run cycle in which a torrent triggered and its would-be action was logged
C1_Witness ==
    /\ args.dry_run
    /\ ~ConfigDryRun
    /\ last.valid
    /\ last.reasons # <<>>
    /\ \E i \in 1..Len(log) : log[i].dry /\ log[i].msg.hash = last.t.hash

\* C2: in live mode, when a pause or delete command fails on the API for a
\* torrent (an HTTP error status, or another API error), the cycle goes on:
\* the process is still in the for loop of the cycle.
C2_DispatchFailureDoesNotAbort ==
    (last.valid /\ last.raised \in {"HTTPError", "APIError"}) => pc = "loop"

FatalKinds == {"LoginFailed", "APIConnectionError"}

\* C3: when the seeding-list fetch fails with an authentication failure or an
\* unreachable endpoint, run returns: no torrent of that cycle is evaluated
\* (the fetch is the cycle's only call), and from then on nothing happens any
\* more: no later cycle, no external call, in one-shot and continuous mode.
C3_FatalFetchStopsRun ==
    /\ []((exc.op = "torrents_info" /\ exc.kind \in FatalKinds) =>
            (pc = "returned" /\ ~last.valid /\ Len(calls) = 1 /\ calls[1].op = "torrents_info"))
    /\ [][(exc.op = "torrents_info" /\ exc.kind \in FatalKinds) => UNCHANGED vars]_vars

\* the fetch of the second cycle of a continuous run found the endpoint unreachable
C3_Witness ==
    /\ exc = [kind |-> "APIConnectionError", op |-> "torrents_info"]
    /\ ~once
    /\ cycles = 2
    /\ pc = "returned"

ValidActions == {"pause", "remove", "remove_data"}

\* the actions of the policies from_dict builds from a document
ConfiguredActions(data) ==
    LET policy   == DictGet(data, "policy", EmptyDict)
        default  == DictGet(policy, "default", EmptyDict)
        trackers == DictGet(policy, "trackers", EmptyDict)
    IN  {DictGet(default, "action", "pause")}
        \cup {DictGet(DictMerge(default, trackers[host]), "action", "pause") : host \in DOMAIN trackers}

\* C4: a configuration with a policy whose action is not pause, remove or
\* remove_data (here: not even when lower-cased) is rejected when it is
\* loaded: the process never gets past main's config loading.
C4_UnknownActionRejected ==
    (\E a \in ConfiguredActions(raw) : Lower(a) \notin ValidActions) => pc \in {"main", "exit"}

AllDisabled(policy) == policy.ratio = 0 /\ policy.seeding_minutes = 0 /\ policy.idle_minutes = 0

\* C5: under a policy with ratio = 0, seeding_minutes = 0 and idle_minutes = 0
\* an evaluated torrent has no reason, whatever its metrics and idle state,
\* and no cycle logs an action or sends a command.
C5_AllDisabledNeverTriggers ==
    (cfg.ok /\ AllDisabled(cfg.default_policy) /\ \A h \in DOMAIN cfg.tracker_policies : AllDisabled(cfg.tracker_policies[h])) =>
        /\ (last.valid => last.reasons = <<>>)
        /\ \A i \in 1..Len(log) : log[i].level # "INFO"
        /\ \A i \in 1..Len(calls) : calls[i].op \in ReadOps

\* an all-disabled policy met a torrent over every limit a positive threshold would set:
\* ratio 2, a full minute of seeding, no upload for a minute at speed 0
C5_Witness ==
    /\ cfg.ok
    /\ AllDisabled(cfg.default_policy)
    /\ last.valid
    /\ last.admitted
    /\ last.t.ratio = 2
    /\ last.t.seeding_time = 60
    /\ last.t.upspeed = 0
    /\ ~last.first
    /\ now - state[last.t.hash].last_up >= 60

\* C6: a threshold that is zero or negative disables its rule: ratio <= 0
\* never gives "ratio", seeding_minutes <= 0 never gives "seeding_time",
\* idle_minutes <= 0 never gives "idle".
C6_NonPositiveDisables ==
    last.valid =>
        /\ (last.policy.ratio <= 0 => "ratio" \notin Range(last.reasons))
        /\ (last.policy.seeding_minutes <= 0 => "seeding_time" \notin Range(last.reasons))
        /\ (last.policy.idle_minutes <= 0 => "idle" \notin Range(last.reasons))

\* C7: in the cycle that observes a hash for the first time, the torrent does
\* not get the reason "idle", whatever its metrics and the idle threshold.
C7_FirstObservationNeverIdle ==
    (last.valid /\ last.admitted /\ last.first) => "idle" \notin Range(last.reasons)

\* C8: when a torrent gets the reason "idle" at time t under idle_minutes = T > 0,
\* no earlier observation of the hash made less than T minutes before t
\* showed more uploaded bytes than the observation before it.
C8_IdleMeansNoRiseInWindow ==
    (last.valid /\ last.admitted /\ "idle" \in Range(last.reasons) /\ last.policy.idle_minutes > 0) =>
        LET rise == obs[last.t.hash].rise
        IN  ~(rise >= 0 /\ rise < now /\ now - rise < 60 * last.policy.idle_minutes)

\* C9: an iteration whose torrent the tag filter rejects changes nothing but
\* the position in the list and the record of the tracker lookup: the idle
\* state keeps its entries and their values, nothing is logged, no command
\* is sent, and the torrent has no reasons.
C9_RejectedTorrentIsSkipped ==
    [][(pc = "loop" /\ torrents # <<>> /\ last'.valid /\ ~last'.admitted) =>
          /\ state' = state
          /\ log' = log
          /\ last'.reasons = <<>>
          /\ calls' = Append(calls, [op |-> "torrents_trackers", hash |-> Head(torrents), delete_files |-> FALSE])
          /\ pc' = "loop"]_vars

\* a torrent never seen before, with a ratio at the policy's threshold, was rejected
C9_Witness ==
    /\ last.valid
    /\ ~last.admitted
    /\ last.policy.ratio > 0
    /\ last.t.ratio >= last.policy.ratio
    /\ last.t.hash \notin DOMAIN state
    /\ ~dry_run

\* the tags of a torrent: the pieces of t.tags between the commas, trimmed,
\* without the empty ones; none for the empty string
TrimmedTags(tags) == {Strip(piece) : piece \in Range(Split(tags))} \ {<<>>}

\* C10: the tag filter admits a torrent iff (include_tags is empty or the
\* trimmed tags meet include_tags) and the trimmed tags do not meet
\* exclude_tags; so a torrent without tags is rejected when include_tags is
\* not empty, and so is one with an included and an excluded tag.
C10_TagFilter ==
    last.valid =>
        LET tags == TrimmedTags(last.t.tags)
            incl == last.policy.include_tags
            excl == last.policy.exclude_tags
        IN  /\ last.admitted <=> ((incl = {} \/ tags \cap incl # {}) /\ tags \cap excl = {})
            /\ (tags = {} /\ incl # {}) => ~last.admitted
            /\ (tags \cap incl # {} /\ tags \cap excl # {}) => ~last.admitted

\* "t, x" (tags with the blank qBittorrent puts after the comma) under
\* include_tags ["t"] and exclude_tags ["x"] was rejected
C10_Witness ==
    /\ last.valid
    /\ last.t.tags = <<"t", ",", " ", "x">>
    /\ last.policy.include_tags = {TagT}
    /\ last.policy.exclude_tags = {TagX}
    /\ ~last.admitted

\* the audit lines of the current cycle for a hash
AuditEntries(hash) == {i \in 1..Len(log) : log[i].level = "INFO" /\ log[i].msg.hash = hash}

\* C11: a triggered torrent has exactly one audit log entry in its cycle, in
\* dry-run and in live mode, also when its command fails or its action
\* matches no command.
C11_OneAuditEntryPerTrigger ==
    (last.valid /\ last.admitted /\ last.reasons # <<>>) =>
        Cardinality(AuditEntries(last.t.hash)) = 1

\* the commands of the current cycle for a hash
CommandsFor(hash) == {i \in 1..Len(calls) : calls[i].op \in CommandOps /\ calls[i].hash = hash}

\* C12: in live mode a triggered torrent gets exactly one command in its
\* cycle: a pause for pause, a delete keeping the files for remove, a delete
\* with the files for remove_data; a torrent without reasons gets none, and
\* files are deleted only under remove_data.
C12_OneCommandPerTrigger ==
    (last.valid /\ ~dry_run) =>
        LET cmds == CommandsFor(last.t.hash)
            action == last.policy.action
        IN  /\ (last.reasons = <<>>) => cmds = {}
            /\ (last.admitted /\ last.reasons # <<>>) => Cardinality(cmds) = 1
            /\ \A i \in cmds :
                  /\ action = "pause" => calls[i].op = "torrents_pause"
                  /\ action = "remove" => (calls[i].op = "torrents_delete" /\ ~calls[i].delete_files)
                  /\ action = "remove_data" => (calls[i].op = "torrents_delete" /\ calls[i].delete_files)
                  /\ calls[i].delete_files => action = "remove_data"

\* the tracker host of a torrent as the claim words it: the hostname of the
\* first tracker URL that has one; none when the lookup failed
HostOfFirstParseable(trk) ==
    LET parseable == {i \in 1..Len(trk.urls) : UrlHostname(trk.urls[i]) # None}
    IN  IF trk.raised # "none" \/ parseable = {}
        THEN None
        ELSE UrlHostname(trk.urls[CHOOSE i \in parseable : \A j \in parseable : i <= j])

\* C13: a torrent is evaluated under the tracker's policy when its tracker
\* host is a key of the tracker-policy mapping, else under the default
\* policy; after a failed lookup, an empty tracker list or a list without a
\* hostname it is the default policy, and the run loop goes on (the for
\* loop, then the next cycle or the one-shot end) unless a command raised.
C13_EffectivePolicy ==
    last.valid =>
        LET host == HostOfFirstParseable(last.trk)
        IN  /\ last.policy = (IF host \in DOMAIN cfg.tracker_policies
                              THEN cfg.tracker_policies[host]
                              ELSE cfg.default_policy)
            /\ host = None => last.policy = cfg.default_policy
            /\ last.raised = "none" => pc \in {"loop", "fetch", "done"}

\* a torrent whose first tracker is a pseudo tracker without hostname was
\* evaluated under the policy of its second tracker's host, which differs
\* from the default policy
C13_Witness ==
    /\ last.valid
    /\ last.trk.urls = <<"** [DHT] **", "http://a.org/announce">>
    /\ last.policy = cfg.tracker_policies["a.org"]
    /\ last.policy # cfg.default_policy
    /\ last.admitted

\* C19: an authentication failure or unreachable endpoint stops the run loop
\* whichever call raises it: after a tracker lookup or a command raised one,
\* run has returned.
C19_FatalAlwaysStops ==
    (last.valid /\ (last.trk.raised \in FatalKinds \/ last.raised \in FatalKinds)) => pc = "returned"

\* the place of a reason in the fixed order
ReasonRank(r) == CASE r = "ratio" -> 1 [] r = "seeding_time" -> 2 [] r = "idle" -> 3 [] OTHER -> 0

\* C14: the reason list is a subsequence of <<"ratio", "seeding_time", "idle">>:
\* only these three reasons, each at most once, in this order.
C14_ReasonOrder ==
    last.valid =>
        /\ \A i \in 1..Len(last.reasons) : ReasonRank(last.reasons[i]) \in 1..3
        /\ \A i, j \in 1..Len(last.reasons) :
              i < j => ReasonRank(last.reasons[i]) < ReasonRank(last.reasons[j])

\* all three rules fired at once under positive thresholds
C14_Witness ==
    /\ last.valid
    /\ last.policy.ratio > 0
    /\ last.policy.seeding_minutes > 0
    /\ last.policy.idle_minutes > 0
    /\ last.reasons = <<"ratio", "seeding_time", "idle">>

\* a step that is an iteration of the for loop over an admitted torrent
AdmittedIteration == pc = "loop" /\ torrents # <<>> /\ last'.valid /\ last'.admitted

\* C17: for an admitted torrent that has an idle-state entry, under
\* idle_minutes = T > 0, "idle" is produced at time t iff the uploaded bytes
\* do not exceed the stored bytes, the upload speed is 0 and t minus the
\* stored progress time is at least T minutes; an iteration whose uploaded
\* bytes exceed the stored bytes sets the progress time to t and gives no "idle".
C17_IdleIff ==
    [][(AdmittedIteration /\ Head(torrents) \in DOMAIN state /\ last'.policy.idle_minutes > 0) =>
          LET st == state[Head(torrents)]
              t == last'.t
              idle == "idle" \in Range(last'.reasons)
          IN  /\ idle <=> (/\ t.uploaded <= st.uploaded
                           /\ t.upspeed = 0
                           /\ now - st.last_up >= 60 * last'.policy.idle_minutes)
              /\ t.uploaded > st.uploaded => (state'[t.hash].last_up = now /\ ~idle)]_vars

\* under idle_minutes = 2, a torrent seen before, at speed 0 and without new
\* bytes, got "idle" exactly 120 seconds after its stored progress time
C17_Witness ==
    /\ last.valid
    /\ last.admitted
    /\ ~last.first
    /\ last.policy.idle_minutes = 2
    /\ last.t.upspeed = 0
    /\ now - state[last.t.hash].last_up = 120
    /\ "idle" \in Range(last.reasons)

\* C18: an idle-state entry is created by the first admitted observation of
\* a hash with the observed bytes and now; it changes only in an admitted
\* observation with strictly more bytes than stored, to the observed bytes
\* and now; equal or fewer bytes leave it as it is; no entry is removed,
\* action or not. So the stored bytes never decrease and are the most bytes
\* of all admitted observations of the hash.
C18_IdleStateLifecycle ==
    /\ [](/\ DOMAIN state = DOMAIN obs
          /\ \A h \in DOMAIN state : state[h].uploaded = obs[h].max)
    /\ [][/\ \A h \in DOMAIN state :
                /\ h \in DOMAIN state'
                /\ state'[h].uploaded >= state[h].uploaded
                /\ state'[h] # state[h] =>
                      /\ AdmittedIteration
                      /\ last'.t.hash = h
                      /\ last'.t.uploaded > state[h].uploaded
                      /\ state'[h] = [uploaded |-> last'.t.uploaded, last_up |-> now]
          /\ \A h \in (DOMAIN state') \ (DOMAIN state) :
                /\ AdmittedIteration
                /\ last'.t.hash = h
                /\ state'[h] = [uploaded |-> last'.t.uploaded, last_up |-> now]
          /\ AdmittedIteration =>
                /\ last'.t.hash \in DOMAIN state'
                /\ (last'.t.hash \in DOMAIN state /\ last'.t.uploaded > state[last'.t.hash].uploaded) =>
                      state'[last'.t.hash] = [uploaded |-> last'.t.uploaded, last_up |-> now]]_vars

\* a torrent that reported fewer bytes than stored triggered an action (the
\* dry-run audit line was written) and its entry is still there, unchanged
C18_Witness ==
    /\ last.valid
    /\ last.admitted
    /\ ~last.first
    /\ last.t.uploaded < state[last.t.hash].uploaded
    /\ state[last.t.hash].last_up < now
    /\ last.reasons # <<>>
    /\ AuditEntries(last.t.hash) # {}

\* C20: a hash that was observed, then not observed for at least one whole
\* cycle (missing from the list or rejected by the tag filter), does not get
\* "idle" in its first cycle back unless the time up to its last
\* observation before the gap already reached the threshold.
C20_StaleStateHarmless ==
    [][(/\ AdmittedIteration
        /\ Head(torrents) \in DOMAIN obs
        /\ obs[Head(torrents)].cycle < cycles - 1
        /\ last'.policy.idle_minutes > 0
        /\ "idle" \in Range(last'.reasons)) =>
          obs[Head(torrents)].seen - state[Head(torrents)].last_up >= 60 * last'.policy.idle_minutes]_vars

\* C15: in one-shot mode run executes one cycle and is over (a fatal error
\* included), it never starts a second cycle; a fetch begins only when the
\* for loop of the cycle before it is through; in continuous mode run is
\* over only after a fatal error (a failed fetch, or an authentication or
\* connection failure of another call).
C15_RunLoopModes ==
    /\ once => cycles <= 1
    /\ (once /\ cycles = 1) => pc \in {"loop", "done", "returned", "crashed"}
    /\ (pc = "fetch" /\ cycles >= 1) => (~once /\ torrents = <<>>)
    /\ (~once /\ pc \in {"returned", "crashed"}) =>
          (exc.op = "torrents_info" \/ exc.kind \in FatalKinds)

\* C16: loading a document never fails over a policy section that leaves out
\* ratio, seeding_minutes, idle_minutes or action, or that has a key that is
\* not a Policy field: a threshold left out is 0, an action left out is
\* "pause"; each tracker policy is the default policy with exactly the
\* fields given for the tracker overridden.
C16_PartialConfigLoads ==
    pc # "main" =>
        LET policy   == DictGet(raw, "policy", EmptyDict)
            default  == DictGet(policy, "default", EmptyDict)
            trackers == DictGet(policy, "trackers", EmptyDict)
        IN  /\ pc # "exit"
            /\ cfg.ok
            /\ \A f \in RequiredFields : cfg.default_policy[f] = DictGet(default, f, 0)
            /\ cfg.default_policy.action = DictGet(default, "action", "pause")
            /\ DOMAIN cfg.tracker_policies = DOMAIN trackers
            /\ \A host \in DOMAIN trackers : \A f \in PolicyFields :
                  cfg.tracker_policies[host][f] =
                      IF f \in DOMAIN trackers[host] THEN trackers[host][f] ELSE cfg.default_policy[f]

====
